---------------------------- MODULE Spec2Model ----------------------------
(***************************************************************************)
(* Model of the pibooth workflow coordinator (src/pibooth/ptb.py): the six *)
(* workflow states, the session context they share and the event loop      *)
(* PtbApplication.main_loop that feeds the state machine.                  *)
(*                                                                         *)
(* StateMachine, State (pibooth.states) and PoolingTimer (pibooth.utils)   *)
(* are imported by ptb.py and defined elsewhere; they are modelled from    *)
(* spec.md sections 3, 4.1 and 4.2.                                        *)
(***************************************************************************)
EXTENDS Integers, Sequences, FiniteSets, TLC

(* ------------------------------ bounds -------------------------------- *)

\* Largest shot count the configuration supplies in the model (0..MaxConfigCaptures).
MaxConfigCaptures == 2

\* Largest number of events in one batch returned by pygame.event.get().
MaxBatch == 2

\* Timer units that elapse during a slow loop iteration (a fast one takes none).
MaxDelta == 4

\* Largest number of capture sequences (cycle directories) started in a run.
MaxCycles == 2

(* ------------------------- program constants -------------------------- *)

\* PoolingTimer(8) of StateChoose.
ChooseTimeout == 8

\* PoolingTimer(5) of StatePrint.
PrintTimeout == 5

\* The two shot counts of the selector in StateChoose.do_actions.
OneCapture == 1
FourCaptures == 4

(* ------------------------------- values ------------------------------- *)

\* Python's None; every optional value is None or a one-element tuple Some(x).
None == <<>>
Some(x) == <<x>>

\* The event kinds the finder predicates tell apart: QUIT is pygame.QUIT or the
\* Escape key, PRINT is Ctrl+E or the print button, K_ARROW is the left or the
\* right arrow key; BUTTON_PICTURE is the picture button, which both
\* find_picture_event and find_choice_event accept.
EventKinds ==
    { "QUIT", "CTRL_F", "VIDEORESIZE", "K_p", "BUTTON_PICTURE", "PRINT", "K_ARROW" }

\* The batches pygame.event.get() can return (order is irrelevant to the
\* finders' truth value, so a batch is the set of kinds it holds).
Batches == { b \in SUBSET EventKinds : Cardinality(b) <= MaxBatch }

\* Shot counts config.getint('PICTURE', 'captures') can return.
ConfigCaptures == 0 .. MaxConfigCaptures

\* Durations of one loop iteration, in timer units.
Deltas == { 0, MaxDelta }

\* The smaller of two elapsed times.
Min(x, y) == IF x <= y THEN x ELSE y

VARIABLES
    pc,                     \* position in main_loop: "start", "loop", "exit"
    state,                  \* StateMachine's active state name, "None" before set_state
    events,                 \* main_loop's local: the batch of the current iteration
    dirname,                \* app.dirname
    captures,               \* app.captures
    max_captures,           \* app.max_captures
    previous_picture,       \* app.previous_picture
    previous_picture_file,  \* app.previous_picture_file
    printed,                \* StatePrint.printed
    choose_timer,           \* units elapsed since StateChoose.timer.start(), saturating
    print_timer,            \* units elapsed since StatePrint.timer.start(), saturating
    led_picture,            \* PtbLed(7):  "off", "on", "blink"
    led_print,              \* PtbLed(15): "off", "on", "blink"
    previewing,             \* camera live preview running
    cycles,                 \* number of capture sequences started (names the cycle directory)
    calls,                  \* collaborator calls made by the latest loop iteration, in order
    raised,                 \* the exception that left main_loop, or None
    cleanups,               \* number of times the finally block has run
    installed,              \* printer.is_installed(), the same answer all run long
    config_captures         \* config.getint('PICTURE', 'captures')

vars == << pc, state, events, dirname, captures, max_captures, previous_picture,
           previous_picture_file, printed, choose_timer, print_timer, led_picture,
           led_print, previewing, cycles, calls, raised, cleanups, installed,
           config_captures >>

\* The application object as one record, threaded through the hooks.
App ==
    [ state |-> state, dirname |-> dirname, captures |-> captures,
      max_captures |-> max_captures, previous_picture |-> previous_picture,
      previous_picture_file |-> previous_picture_file, printed |-> printed,
      choose_timer |-> choose_timer, print_timer |-> print_timer,
      led_picture |-> led_picture, led_print |-> led_print,
      previewing |-> previewing, cycles |-> cycles, calls |-> << >>,
      raised |-> raised, installed |-> installed,
      config_captures |-> config_captures ]

\* A collaborator call: its name and its argument (None when it takes none).
Call(a, fn, arg) == [a EXCEPT !.calls = Append(@, << fn, arg >>)]

\* A collaborator call raising: the exception propagates, nothing after it runs.
Raise(a, fn, arg) == [Call(a, fn, arg) EXCEPT !.raised = Some(fn)]


\* PtbLed.switch_on / switch_off / blink on one of the two lights.
Led(a, led, mode) ==
    IF led = "led_picture"
    THEN [Call(a, "led_picture." \o mode, None) EXCEPT !.led_picture = mode]
    ELSE [Call(a, "led_print." \o mode, None) EXCEPT !.led_print = mode]

(* --------------------------- event finders ---------------------------- *)

find_quit_event(ev) == "QUIT" \in ev

find_fullscreen_event(ev) == "CTRL_F" \in ev

find_picture_event(ev) == "K_p" \in ev \/ "BUTTON_PICTURE" \in ev

find_print_event(ev) == "PRINT" \in ev

find_resize_event(ev) == "VIDEORESIZE" \in ev

find_choice_event(ev) == "K_ARROW" \in ev \/ "BUTTON_PICTURE" \in ev

(* ------------------------------- timers ------------------------------- *)

\* PoolingTimer.start(): nothing has elapsed since the start.
TimerStart == 0

\* PoolingTimer.is_timeout(): the duration has elapsed since the last start().
IsTimeout(elapsed, timeout) == elapsed >= timeout

\* d timer units pass; an elapsed time is kept up to its timeout only, which is
\* all is_timeout() can tell.
Elapse(a, d) ==
    [a EXCEPT !.choose_timer = Min(@ + d, ChooseTimeout),
              !.print_timer = Min(@ + d, PrintTimeout)]

(* ------------------------------ StateWait ----------------------------- *)

\* Rendering calls of the hooks (window.show_*) touch no session data and are
\* left out of the hooks below.
StateWait_entry_actions(a) == a

\* Mutant: the print request of wait is served without asking whether a printer
\* is installed.
StateWait_do_actions_NoInstalledCheck(a, ev, ok) ==
    IF find_print_event(ev) /\ a.previous_picture_file # None
    THEN LET a1 == Led(a, "led_print", "blink")
         IN  IF ok
             THEN Led(Call(a1, "printer.print_file", a1.previous_picture_file),
                      "led_print", "on")
             ELSE Raise(a1, "printer.print_file", a1.previous_picture_file)
    ELSE a

\* Mutant: the print request of wait is served without asking whether a
\* composed image exists.
StateWait_do_actions_NoPictureCheck(a, ev, ok) ==
    IF find_print_event(ev) /\ a.installed
    THEN LET a1 == Led(a, "led_print", "blink")
         IN  IF ok
             THEN Led(Call(a1, "printer.print_file", a1.previous_picture_file),
                      "led_print", "on")
             ELSE Raise(a1, "printer.print_file", a1.previous_picture_file)
    ELSE a

StateWait_do_actions(a, ev, ok) ==
    IF find_print_event(ev) /\ a.previous_picture_file # None /\ a.installed
    THEN LET a1 == Led(a, "led_print", "blink")
         IN  IF ok
             THEN Led(Call(a1, "printer.print_file", a1.previous_picture_file),
                      "led_print", "on")
             ELSE Raise(a1, "printer.print_file", a1.previous_picture_file)
    ELSE a

StateWait_exit_actions(a) == Led(a, "led_print", "off")

StateWait_validate_transition(a, ev) ==
    IF find_picture_event(ev) THEN "choose" ELSE "None"

(* ----------------------------- StateChoose ---------------------------- *)

\* Mutant: the configured count is loaded only while no count is set, so a
\* count chosen in one cycle stays for the next.
StateChoose_entry_actions_KeepChoice(a) ==
    [Led(a, "led_picture", "on")
        EXCEPT !.max_captures = IF a.max_captures = None
                                THEN Some(a.config_captures) ELSE @,
               !.choose_timer = TimerStart]

StateChoose_entry_actions(a) ==
    [Led(a, "led_picture", "on") EXCEPT !.max_captures = Some(a.config_captures),
                                        !.choose_timer = TimerStart]

\* Mutant: two independent tests instead of if / elif.
StateChoose_do_actions_TwoIfs(a, ev) ==
    LET a1 == IF find_choice_event(ev) /\ a.max_captures # Some(OneCapture)
              THEN [a EXCEPT !.max_captures = Some(OneCapture)] ELSE a
    IN  IF find_choice_event(ev) /\ a1.max_captures # Some(FourCaptures)
        THEN [a1 EXCEPT !.max_captures = Some(FourCaptures)] ELSE a1

\* Mutant: a toggle between 1 and 4 that leaves any other count alone.
StateChoose_do_actions_CleanToggle(a, ev) ==
    IF find_choice_event(ev) /\ a.max_captures = Some(FourCaptures)
    THEN [a EXCEPT !.max_captures = Some(OneCapture)]
    ELSE IF find_choice_event(ev) /\ a.max_captures = Some(OneCapture)
         THEN [a EXCEPT !.max_captures = Some(FourCaptures)]
         ELSE a

StateChoose_do_actions(a, ev) ==
    IF find_choice_event(ev) /\ a.max_captures # Some(OneCapture)
    THEN [a EXCEPT !.max_captures = Some(OneCapture)]
    ELSE IF find_choice_event(ev) /\ a.max_captures # Some(FourCaptures)
         THEN [a EXCEPT !.max_captures = Some(FourCaptures)]
         ELSE a

\* Mutant: a choice event ends the selection at once.
StateChoose_validate_transition_OnChoice(a, ev) ==
    IF IsTimeout(a.choose_timer, ChooseTimeout) \/ find_choice_event(ev)
    THEN "capture" ELSE "None"

StateChoose_validate_transition(a, ev) ==
    IF IsTimeout(a.choose_timer, ChooseTimeout) THEN "capture" ELSE "None"

(* ----------------------------- StateCapture --------------------------- *)

\* The cycle directory: savedir joined with the start time of the sequence.
\* Two sequences are at least ChooseTimeout units apart, so the k-th sequence
\* of a run gets a directory of its own, named here by k.
CycleDir(k) == Some(k)

\* osp.join(dirname, "ptb{:03}.jpg".format(n))
CaptureFile(dir, n) == << dir[1], "ptb", n >>

\* osp.join(dirname, <time> + "_ptb.jpg")
MergedFile(dir) == << dir[1], "_ptb.jpg" >>

\* generate_picture_from_files(captures, ...): the image made of these files.
generate_picture_from_files(files) == Some(files)

StateCapture_entry_actions(a, ok) ==
    LET a1 == [a EXCEPT !.previous_picture = None,
                        !.previous_picture_file = None,
                        !.cycles = @ + 1,
                        !.dirname = CycleDir(a.cycles + 1)]
    IN  IF ok
        THEN [Call(a1, "camera.preview", None) EXCEPT !.previewing = TRUE]
        ELSE Raise(a1, "camera.preview", None)

\* Mutant: the file name is appended to captures before the camera is asked
\* to take the picture.
StateCapture_do_actions_AppendFirst(a, ok) ==
    LET a1 == Led(Led(a, "led_picture", "blink"), "led_picture", "on")
        image_file_name == CaptureFile(a1.dirname, Len(a1.captures))
        a2 == [a1 EXCEPT !.captures = Append(@, image_file_name)]
    IN  IF ok
        THEN Call(a2, "camera.capture", image_file_name)
        ELSE Raise(a2, "camera.capture", image_file_name)

StateCapture_do_actions(a, ok) ==
    LET a1 == Led(Led(a, "led_picture", "blink"), "led_picture", "on")
        image_file_name == CaptureFile(a1.dirname, Len(a1.captures))
    IN  IF ok
        THEN [Call(a1, "camera.capture", image_file_name)
                EXCEPT !.captures = Append(@, image_file_name)]
        ELSE Raise(a1, "camera.capture", image_file_name)

\* Mutant: the picture light is left on when capture is left.
StateCapture_exit_actions_LedLeftOn(a) ==
    [Call(a, "camera.stop_preview", None) EXCEPT !.previewing = FALSE]

\* Mutant: the live preview is left running when capture is left.
StateCapture_exit_actions_PreviewLeftOn(a) == Led(a, "led_picture", "off")

StateCapture_exit_actions(a) ==
    Led([Call(a, "camera.stop_preview", None) EXCEPT !.previewing = FALSE],
        "led_picture", "off")

\* Mutant: > where the code has >=, one picture too many.
StateCapture_validate_transition_OffByOne(a, ev) ==
    IF Len(a.captures) > a.max_captures[1] THEN "processing" ELSE "None"

StateCapture_validate_transition(a, ev) ==
    IF Len(a.captures) >= a.max_captures[1] THEN "processing" ELSE "None"

(* ---------------------------- StateProcessing ------------------------- *)

StateProcessing_entry_actions(a) ==
    [a EXCEPT !.previous_picture = generate_picture_from_files(a.captures),
              !.previous_picture_file = MergedFile(a.dirname)]

\* Mutant: captures is not cleared on leaving processing.
StateProcessing_exit_actions_KeepCaptures(a) == a

StateProcessing_exit_actions(a) == [a EXCEPT !.captures = << >>]

\* Mutant: the else branch is missing, without a printer no name is returned.
StateProcessing_validate_transition_NoElse(a, ev) ==
    IF a.installed THEN "print" ELSE "None"

\* Mutant: without a printer, processing goes straight back to wait.
StateProcessing_validate_transition_SkipFinish(a, ev) ==
    IF a.installed THEN "print" ELSE "wait"

StateProcessing_validate_transition(a, ev) ==
    IF a.installed THEN "print" ELSE "finish"

(* ------------------------------ StatePrint ---------------------------- *)

StatePrint_entry_actions(a) ==
    [Led(a, "led_print", "on") EXCEPT !.print_timer = TimerStart]

\* Mutant: a served print request is not recorded in printed.
StatePrint_do_actions_NotRecorded(a, ev, ok) ==
    IF find_print_event(ev) /\ a.previous_picture_file # None
    THEN LET a1 == Led(a, "led_print", "blink")
         IN  IF ok
             THEN Led(Call(a1, "printer.print_file", a1.previous_picture_file),
                      "led_print", "on")
             ELSE Raise(a1, "printer.print_file", a1.previous_picture_file)
    ELSE a

StatePrint_do_actions(a, ev, ok) ==
    IF find_print_event(ev) /\ a.previous_picture_file # None
    THEN LET a1 == Led(a, "led_print", "blink")
         IN  IF ok
             THEN [Led(Call(a1, "printer.print_file", a1.previous_picture_file),
                       "led_print", "on") EXCEPT !.printed = TRUE]
             ELSE Raise(a1, "printer.print_file", a1.previous_picture_file)
    ELSE a

\* Mutant: print waits for a served print request, whatever the timer says.
StatePrint_validate_transition_NoTimeout(a, ev) ==
    IF a.printed THEN "finish" ELSE "None"

StatePrint_validate_transition(a, ev) ==
    IF IsTimeout(a.print_timer, PrintTimeout) \/ a.printed THEN "finish" ELSE "None"

(* ------------------------------ StateFinish --------------------------- *)

StateFinish_entry_actions(a) == a

\* State.validate_transition, the default StateFinish inherits: the successor
\* given to State.__init__, on every call.
StateFinish_validate_transition(a, ev) == "wait"

(* ----------------------------- StateMachine --------------------------- *)

entry_actions(a, ok) ==
    CASE a.state = "wait" -> StateWait_entry_actions(a)
      [] a.state = "choose" -> StateChoose_entry_actions(a)
      [] a.state = "capture" -> StateCapture_entry_actions(a, ok)
      [] a.state = "processing" -> StateProcessing_entry_actions(a)
      [] a.state = "print" -> StatePrint_entry_actions(a)
      [] a.state = "finish" -> StateFinish_entry_actions(a)

do_actions(a, ev, ok) ==
    CASE a.state = "wait" -> StateWait_do_actions(a, ev, ok)
      [] a.state = "choose" -> StateChoose_do_actions(a, ev)
      [] a.state = "capture" -> StateCapture_do_actions(a, ok)
      [] a.state = "processing" -> a
      [] a.state = "print" -> StatePrint_do_actions(a, ev, ok)
      [] a.state = "finish" -> a

exit_actions(a) ==
    CASE a.state = "wait" -> StateWait_exit_actions(a)
      [] a.state = "capture" -> StateCapture_exit_actions(a)
      [] a.state = "processing" -> StateProcessing_exit_actions(a)
      [] OTHER -> a

validate_transition(a, ev) ==
    CASE a.state = "wait" -> StateWait_validate_transition(a, ev)
      [] a.state = "choose" -> StateChoose_validate_transition(a, ev)
      [] a.state = "capture" -> StateCapture_validate_transition(a, ev)
      [] a.state = "processing" -> StateProcessing_validate_transition(a, ev)
      [] a.state = "print" -> StatePrint_validate_transition(a, ev)
      [] a.state = "finish" -> StateFinish_validate_transition(a, ev)

\* StateMachine.set_state(name): make it the active state and run its entry hook.
set_state(a, name, ok) == entry_actions([a EXCEPT !.state = name], ok)

\* StateMachine.process(events): the active state's per-tick action, then its
\* transition check; on a name, the old state's exit hook, the switch and the
\* new state's entry hook.
process(a, ev, ok) ==
    LET a1 == do_actions(a, ev, ok)
        new_state_name == validate_transition(a1, ev)
    IN  IF a1.raised # None THEN a1
        ELSE IF new_state_name = "None" THEN a1
        ELSE set_state(exit_actions(a1), new_state_name, ok)

(* ------------------------------ main_loop ----------------------------- *)

\* Mutant: the active state's exit hook runs before the cleanup sequence.
Finally_RunsExitHook(a) ==
    LET b == exit_actions(a)
    IN  Call(Call(Call(Call(
            Led(Led(b, "led_picture", "off"), "led_print", "off"),
            "GPIO.cleanup", None), "camera.quit", None), "printer.quit", None),
            "pygame.quit", None)

\* The finally block of main_loop.
Finally(a) ==
    Call(Call(Call(Call(
        Led(Led(a, "led_picture", "off"), "led_print", "off"),
        "GPIO.cleanup", None), "camera.quit", None), "printer.quit", None),
        "pygame.quit", None)

\* Mutant: the quit check is missing, the batch goes to the state machine.
Iteration_NoQuitCheck(ev, d, ok) ==
    LET a0 == Elapse(App, d)
        a1 == IF find_fullscreen_event(ev)
              THEN Call(a0, "window.toggle_fullscreen", None) ELSE a0
        a2 == IF find_resize_event(ev)
              THEN Call(a1, "window.resize", None) ELSE a1
    IN  process(Call(a2, "state_machine.process", Some(ev)), ev, ok)

\* Mutant: the batch goes to the state machine only when the loop has handled
\* no display event of it.
Iteration_ProcessOtherwise(ev, d, ok) ==
    LET a0 == Elapse(App, d)
        a1 == IF find_fullscreen_event(ev)
              THEN Call(a0, "window.toggle_fullscreen", None) ELSE a0
        a2 == IF find_resize_event(ev)
              THEN Call(a1, "window.resize", None) ELSE a1
    IN  IF find_quit_event(ev) THEN a0
        ELSE IF find_fullscreen_event(ev) \/ find_resize_event(ev) THEN a2
        ELSE process(Call(a2, "state_machine.process", Some(ev)), ev, ok)

\* One pass through the body of `while True`, up to the break or to the end of
\* state_machine.process: d timer units pass while it runs.
Iteration(ev, d, ok) ==
    LET a0 == Elapse(App, d)
        a1 == IF find_fullscreen_event(ev)
              THEN Call(a0, "window.toggle_fullscreen", None) ELSE a0
        a2 == IF find_resize_event(ev)
              THEN Call(a1, "window.resize", None) ELSE a1
    IN  IF find_quit_event(ev) THEN a0
        ELSE process(Call(a2, "state_machine.process", Some(ev)), ev, ok)

\* The variables take the values of the application record.
Store(a) ==
    /\ state' = a.state
    /\ dirname' = a.dirname
    /\ captures' = a.captures
    /\ max_captures' = a.max_captures
    /\ previous_picture' = a.previous_picture
    /\ previous_picture_file' = a.previous_picture_file
    /\ printed' = a.printed
    /\ choose_timer' = a.choose_timer
    /\ print_timer' = a.print_timer
    /\ led_picture' = a.led_picture
    /\ led_print' = a.led_print
    /\ previewing' = a.previewing
    /\ cycles' = a.cycles
    /\ calls' = a.calls
    /\ raised' = a.raised

\* The state after PtbApplication.__init__ and the construction of the states.
Init ==
    /\ pc = "start"
    /\ state = "None"
    /\ events = {}
    /\ dirname = None
    /\ captures = << >>
    /\ max_captures = None
    /\ previous_picture = None
    /\ previous_picture_file = None
    /\ printed = FALSE
    /\ choose_timer = TimerStart
    /\ print_timer = TimerStart
    /\ led_picture = "off"
    /\ led_print = "off"
    /\ previewing = FALSE
    /\ cycles = 0
    /\ calls = << >>
    /\ raised = None
    /\ cleanups = 0
    /\ installed \in BOOLEAN
    /\ config_captures \in ConfigCaptures

\* main_loop up to the loop: state_machine.set_state('wait').
MainLoopStart ==
    /\ pc = "start"
    /\ Store(set_state(App, "wait", TRUE))
    /\ pc' = "loop"
    /\ UNCHANGED << events, cleanups, installed, config_captures >>

\* An iteration that finds a quit event: break, then the finally block.
LoopQuit(ev, d) ==
    /\ pc = "loop"
    /\ find_quit_event(ev)
    /\ events' = ev
    /\ Store(Finally(Iteration(ev, d, TRUE)))
    /\ cleanups' = cleanups + 1
    /\ pc' = "exit"
    /\ UNCHANGED << installed, config_captures >>

\* The run starts at most MaxCycles workflow cycles: a picture request that
\* would start a further one is not drawn. A started cycle is never cut short.
WithinCycles(a) == ~(state = "wait" /\ a.state = "choose" /\ cycles >= MaxCycles)

\* An iteration in which state_machine.process returns: every collaborator
\* call it makes succeeds.
LoopProcess(ev, d) ==
    /\ pc = "loop"
    /\ ~find_quit_event(ev)
    /\ LET a == Iteration(ev, d, TRUE)
       IN  /\ WithinCycles(a)
           /\ Store(a)
    /\ events' = ev
    /\ pc' = "loop"
    /\ UNCHANGED << cleanups, installed, config_captures >>

\* An iteration in which the hardware fails and a hook that uses it raises:
\* the finally block runs and the exception leaves main_loop.
LoopRaise(ev, d) ==
    /\ pc = "loop"
    /\ ~find_quit_event(ev)
    /\ LET a == Iteration(ev, d, FALSE)
       IN  /\ a.raised # None
           /\ Store(Finally(a))
    /\ events' = ev
    /\ cleanups' = cleanups + 1
    /\ pc' = "exit"
    /\ UNCHANGED << installed, config_captures >>

Next ==
    \/ MainLoopStart
    \/ \E ev \in Batches, d \in Deltas : LoopQuit(ev, d)
    \/ \E ev \in Batches, d \in Deltas : LoopProcess(ev, d)
    \/ \E ev \in Batches, d \in Deltas : LoopRaise(ev, d)

Spec == Init /\ [][Next]_vars

\* The batches of the runs in which no quit event arrives: no event, or one
\* event of a kind other than QUIT.
QuietBatches == { {} } \cup { { k } : k \in EventKinds \ { "QUIT" } }

\* The runs in which no quit event arrives and no hardware action fails.
LiveNext ==
    \/ MainLoopStart
    \/ \E ev \in QuietBatches, d \in Deltas : LoopProcess(ev, d)

\* An iteration of `while True` that takes time: MaxDelta timer units pass.
SlowIteration == \E ev \in QuietBatches : LoopProcess(ev, MaxDelta)

\* main_loop gets to its loop, the loop keeps iterating and the clock keeps
\* advancing: `while True` has no blocking call without a bound, and
\* time.time() grows between two polls. A slow iteration is possible in every
\* state of the loop, so that it recurs is what weak fairness of it asks for.
LiveSpec ==
    /\ Init
    /\ [][LiveNext]_vars
    /\ WF_vars(MainLoopStart)
    /\ []<><<SlowIteration>>_vars

(* ------------------------- helpers of the claims ----------------------- *)

\* The call fn occurs in the call sequence cs.
CalledIn(cs, fn) == \E i \in 1 .. Len(cs) : cs[i][1] = fn

\* Number of calls of fn in the call sequence cs.
CountIn(cs, fn) == Cardinality({ i \in 1 .. Len(cs) : cs[i][1] = fn })

\* The calls of the finally block, in order.
CleanupCalls ==
    << << "led_picture.off", None >>, << "led_print.off", None >>,
       << "GPIO.cleanup", None >>, << "camera.quit", None >>,
       << "printer.quit", None >>, << "pygame.quit", None >> >>

\* The edges of the workflow cycle.
Edges ==
    { << "wait", "choose" >>, << "choose", "capture" >>,
      << "capture", "processing" >>, << "processing", "print" >>,
      << "processing", "finish" >>, << "print", "finish" >>,
      << "finish", "wait" >> }

(* ------------------------------- claims -------------------------------- *)

\* C1: main_loop starts the machine in wait, and every later change of the
\* active state, one per process call, follows an edge of the workflow cycle.
C1_OnlyCycleEdges ==
    [][ /\ (pc = "start" => state' = "wait")
        /\ (pc # "start" /\ state' # state =>
              /\ << state, state' >> \in Edges
              /\ CountIn(calls', "state_machine.process") = 1) ]_vars

\* C1 witness: the machine is back in wait after a cycle that went through print.
C1_Witness == pc = "loop" /\ state = "wait" /\ cycles >= 1 /\ printed

\* C2 (as claimed): once max_captures is loaded, len(captures) <= max_captures
\* at every tick boundary, for every shot count the configuration supplies.
C2_CapturesWithinMax ==
    max_captures # None => Len(captures) <= max_captures[1]

\* The invariant of C2 restricted to configured shot counts of at least 1,
\* the case in which it holds.
CapturesWithinMaxFromOne ==
    config_captures >= 1 => C2_CapturesWithinMax

\* C3 (as claimed): print is left for finish only when the timer started at
\* this entry has expired or a print request was served during this visit.
C3_PrintLeftOnTimeoutOrPrint ==
    [][ state = "print" /\ state' = "finish" =>
          \/ IsTimeout(print_timer', PrintTimeout)
          \/ CalledIn(calls', "printer.print_file") ]_vars

\* C4: in print, a process call whose batch holds a print request before the
\* timer has expired sends the composed file to the printer, sets printed and
\* yields finish; a process call made once the timer has expired yields finish.
C4_PrintRequestOrTimeoutFinishes ==
    [][ pc = "loop" /\ state = "print" /\ raised' = None
        /\ CalledIn(calls', "state_machine.process") =>
          /\ ( /\ find_print_event(events')
               /\ previous_picture_file # None
               /\ ~IsTimeout(print_timer', PrintTimeout)
               => /\ \E i \in 1 .. Len(calls') :
                        calls'[i] = << "printer.print_file", previous_picture_file >>
                  /\ printed'
                  /\ state' = "finish" )
          /\ (IsTimeout(print_timer', PrintTimeout) => state' = "finish") ]_vars

\* C4 witness: print was left on a print request served before the timer expired.
C4_Witness ==
    /\ state = "finish"
    /\ CalledIn(calls, "printer.print_file")
    /\ ~IsTimeout(print_timer, PrintTimeout)

\* C5: with no printer installed, processing moves to finish, print is never
\* active and print_file is never called, whatever print requests arrive.
C5_NoPrinterNoPrint ==
    [][ ~installed =>
          /\ state' # "print"
          /\ ~CalledIn(calls', "printer.print_file")
          /\ (state = "processing" /\ CalledIn(calls', "state_machine.process")
                => state' = "finish") ]_vars

\* C5 witness: a print request arrives in wait, a composed image exists and no
\* printer is installed.
C5_Witness ==
    /\ ~installed
    /\ pc = "loop"
    /\ state = "wait"
    /\ previous_picture_file # None
    /\ find_print_event(events)

\* C6: choose is left for capture exactly at the process call that finds its
\* timer expired; the timer is started by the entry hook only and runs on
\* whatever events arrive; a tick without a choice event keeps max_captures,
\* which the entry hook loaded from the configuration.
C6_ChooseLeftOnTimeoutOnly ==
    [][ /\ (state # "choose" /\ state' = "choose" =>
              /\ max_captures' = Some(config_captures)
              /\ choose_timer' = TimerStart)
        /\ (state = "choose" /\ CalledIn(calls', "state_machine.process") =>
              /\ state' \in { "choose", "capture" }
              /\ (state' = "capture" <=> IsTimeout(choose_timer', ChooseTimeout))
              /\ \E d \in Deltas : choose_timer' = Min(choose_timer + d, ChooseTimeout)
              /\ (~find_choice_event(events') => max_captures' = max_captures)) ]_vars

\* C6 witness: capture entered on the expired timer with a configured count of
\* 2, which no choice event can produce: the visit of choose saw none.
C6_Witness ==
    /\ state = "capture"
    /\ captures = << >>
    /\ config_captures = 2
    /\ max_captures = Some(config_captures)
    /\ IsTimeout(choose_timer, ChooseTimeout)

\* C7: whenever the machine is in wait after n >= 1 cycles, captures is empty
\* and the composed image and its path are those of the n-th cycle.
C7_WaitHoldsLatestComposition ==
    state = "wait" /\ cycles >= 1 =>
        /\ captures = << >>
        /\ previous_picture # None
        /\ previous_picture[1] # << >>
        /\ \A i \in 1 .. Len(previous_picture[1]) :
              previous_picture[1][i] = CaptureFile(CycleDir(cycles), i - 1)
        /\ previous_picture_file = MergedFile(CycleDir(cycles))

\* C7 witness: back in wait after the second cycle.
C7_Witness == pc = "loop" /\ state = "wait" /\ cycles = 2

\* C8: the composed image and its path change only when capture's entry hook
\* clears them and when processing's entry hook writes them; every print_file
\* call, made in wait or in print, gets the non-empty path of the latest
\* composition.
C8_ComposedOncePrintedAfter ==
    [][ /\ (state' = "capture" =>
              previous_picture' = None /\ previous_picture_file' = None)
        /\ ( \/ previous_picture' # previous_picture
             \/ previous_picture_file' # previous_picture_file
             => \/ state = "choose" /\ state' = "capture"
                \/ /\ state = "capture" /\ state' = "processing"
                   /\ previous_picture' = generate_picture_from_files(captures')
                   /\ previous_picture_file' = MergedFile(CycleDir(cycles')) )
        /\ \A i \in 1 .. Len(calls') :
              calls'[i][1] = "printer.print_file" =>
                 /\ state \in { "wait", "print" }
                 /\ calls'[i][2] # None
                 /\ calls'[i][2] = previous_picture_file
                 /\ calls'[i][2] = MergedFile(CycleDir(cycles)) ]_vars

\* C8 witness: a print job sent from wait after the second composition.
C8_Witness ==
    /\ state = "wait"
    /\ cycles = 2
    /\ CalledIn(calls, "printer.print_file")

\* C9: a tick whose batch holds a quit event calls no hook and no hardware: it
\* runs the cleanup sequence, once, and no tick follows it.
C9_QuitStopsBeforeProcess ==
    [][ /\ pc # "exit"
        /\ (pc = "loop" /\ find_quit_event(events') =>
              /\ pc' = "exit"
              /\ raised' = None
              /\ calls' = CleanupCalls
              /\ cleanups = 0 /\ cleanups' = 1
              /\ << state', dirname', captures', max_captures', previous_picture',
                    previous_picture_file', printed', previewing', cycles' >>
                 = << state, dirname, captures, max_captures, previous_picture,
                      previous_picture_file, printed, previewing, cycles >>) ]_vars

\* C9 witness: the loop has stopped on a batch of two events, one of them a
\* quit event, while capture was active.
C9_Witness ==
    /\ pc = "exit"
    /\ raised = None
    /\ state = "capture"
    /\ Cardinality(events) = 2

\* C10: a failing camera or printer call is neither caught nor repeated: it is
\* the last call before the cleanup sequence, which runs once; the session
\* context keeps the values it had when the call failed, and no tick follows.
C10_FailurePropagatesAfterCleanup ==
    [][ /\ pc # "exit"
        /\ (raised' # None =>
              LET n == Len(calls') - Len(CleanupCalls)
              IN  /\ pc' = "exit"
                  /\ cleanups = 0 /\ cleanups' = 1
                  /\ n >= 1
                  /\ calls'[n][1] = raised'[1]
                  /\ CountIn(calls', raised'[1]) = 1
                  /\ SubSeq(calls', n + 1, Len(calls')) = CleanupCalls
                  /\ captures' = captures
                  /\ printed' = printed
                  /\ (raised'[1] = "camera.preview" =>
                        /\ state = "choose" /\ state' = "capture"
                        /\ ~previewing'
                        /\ previous_picture' = None
                        /\ previous_picture_file' = None)
                  /\ (raised'[1] # "camera.preview" =>
                        /\ state' = state
                        /\ dirname' = dirname
                        /\ max_captures' = max_captures
                        /\ previewing' = previewing
                        /\ previous_picture' = previous_picture
                        /\ previous_picture_file' = previous_picture_file)) ]_vars

\* C10 witness: camera.capture failed on the second picture of a sequence.
C10_Witness ==
    /\ pc = "exit"
    /\ raised = Some("camera.capture")
    /\ Len(captures) = 1

\* C11: whatever ends the loop and whichever state is active, the last six
\* calls are the cleanup sequence in its fixed order, and the active state's
\* exit hook does not run: the preview is not stopped, captures is not cleared.
C11_CleanupOrderNoExitHook ==
    [][ pc' = "exit" =>
          LET n == Len(calls') - Len(CleanupCalls)
          IN  /\ n >= 0
              /\ SubSeq(calls', n + 1, Len(calls')) = CleanupCalls
              /\ \A i \in 1 .. n : \A j \in 3 .. Len(CleanupCalls) :
                    calls'[i][1] # CleanupCalls[j][1]
              /\ ~CalledIn(calls', "camera.stop_preview")
              /\ previewing' = previewing
              /\ captures' = captures
              /\ (raised' = None => state' = state) ]_vars

\* C11 witness: the loop was left while capture was active, the preview running
\* and a picture already taken.
C11_Witness ==
    /\ pc = "exit"
    /\ state = "capture"
    /\ previewing
    /\ Len(captures) >= 1

\* C12: in choose, a tick with a choice event turns 1 into 4 and 4 into 1, once,
\* however many choice events its batch holds, so that a second such tick
\* gives the first value back; a tick without one keeps max_captures.
C12_ChoiceTogglesOneAndFour ==
    [][ state = "choose" /\ CalledIn(calls', "state_machine.process") =>
          /\ ( find_choice_event(events') /\ max_captures = Some(OneCapture)
               => max_captures' = Some(FourCaptures) )
          /\ ( find_choice_event(events') /\ max_captures = Some(FourCaptures)
               => max_captures' = Some(OneCapture) )
          /\ ( /\ find_choice_event(events')
               /\ max_captures \in { Some(OneCapture), Some(FourCaptures) }
               => \A ev2 \in Batches :
                     find_choice_event(ev2) =>
                        StateChoose_do_actions(
                            [App EXCEPT !.max_captures = max_captures'],
                            ev2).max_captures = max_captures )
          /\ (~find_choice_event(events') => max_captures' = max_captures) ]_vars

\* C12 witness: choose after a tick whose batch held two choice events, the
\* count being 4 with 1 configured.
C12_Witness ==
    /\ state = "choose"
    /\ events = { "K_ARROW", "BUTTON_PICTURE" }
    /\ config_captures = OneCapture
    /\ max_captures = Some(FourCaptures)

\* C13: whatever count is configured, a tick of choose with a choice event
\* leaves max_captures in {1, 4} and different from what it was.
C13_ChoiceYieldsOneOrFour ==
    [][ /\ state = "choose"
        /\ CalledIn(calls', "state_machine.process")
        /\ find_choice_event(events')
        => /\ max_captures' \in { Some(OneCapture), Some(FourCaptures) }
           /\ max_captures' # max_captures ]_vars

\* C13 witness: 2 is configured and two choice ticks have led to 4.
C13_Witness ==
    /\ state = "choose"
    /\ config_captures = 2
    /\ find_choice_event(events)
    /\ max_captures = Some(FourCaptures)

\* C14: max_captures changes only in choose: its entry hook loads the
\* configured count on every entry, its per-tick action may toggle it, and no
\* tick of wait, capture, processing, print or finish changes it.
C14_MaxCapturesWrittenByChooseOnly ==
    [][ /\ (state # "choose" /\ state' = "choose" =>
              max_captures' = Some(config_captures))
        /\ (max_captures' # max_captures =>
              \/ state = "wait" /\ state' = "choose"
              \/ state = "choose" /\ find_choice_event(events'))
        /\ (state \in { "capture", "processing", "print", "finish" } =>
              max_captures' = max_captures) ]_vars

\* C14 witness: choose entered for the second cycle with the configured count
\* of 1, the first cycle having taken the four pictures the user chose.
C14_Witness ==
    /\ state = "choose"
    /\ cycles = 1
    /\ config_captures = OneCapture
    /\ max_captures = Some(OneCapture)
    /\ Len(previous_picture[1]) = FourCaptures

\* C15: a process call made while processing is active moves on to print or to
\* finish, one made while finish is active moves on to wait, whatever the batch.
C15_ProcessingAndFinishPassThrough ==
    [][ CalledIn(calls', "state_machine.process") =>
          /\ (state = "processing" => state' \in { "print", "finish" })
          /\ (state = "processing" /\ installed => state' = "print")
          /\ (state = "finish" => state' = "wait") ]_vars

\* C15 witness: finish entered from processing by a process call that carried
\* two events.
C15_Witness ==
    /\ pc = "loop"
    /\ state = "finish"
    /\ ~installed
    /\ Cardinality(events) = 2

\* C16: a tick without a quit event calls process once, with the whole batch,
\* after the loop has handled the display events of the batch; a picture
\* request moves wait to choose whatever else the batch holds.
C16_ProcessGetsWholeBatch ==
    [][ pc = "loop" /\ ~find_quit_event(events') =>
          /\ CountIn(calls', "state_machine.process") = 1
          /\ \E i \in 1 .. Len(calls') :
                /\ calls'[i] = << "state_machine.process", Some(events') >>
                /\ ( find_fullscreen_event(events') <=>
                       \E j \in 1 .. i - 1 : calls'[j][1] = "window.toggle_fullscreen" )
                /\ ( find_resize_event(events') <=>
                       \E j \in 1 .. i - 1 : calls'[j][1] = "window.resize" )
          /\ ( state = "wait" /\ find_picture_event(events') /\ raised' = None
               => state' = "choose" ) ]_vars

\* C16 witness: choose entered by a batch that held a resize event and a
\* picture request.
C16_Witness ==
    /\ state = "choose"
    /\ events = { "VIDEORESIZE", "K_p" }
    /\ CalledIn(calls, "window.resize")

\* C17: a tick of capture takes one picture, into the file numbered by the
\* pictures already taken in the cycle's directory; with max_captures >= 1
\* processing is entered with exactly max_captures pictures.
C17_OnePicturePerTickMaxInAll ==
    [][ /\ ( /\ state = "capture"
             /\ CalledIn(calls', "state_machine.process")
             /\ raised' = None
             => /\ captures' = Append(captures, CaptureFile(dirname, Len(captures)))
                /\ CountIn(calls', "camera.capture") = 1 )
        /\ ( state = "capture" /\ state' = "processing" /\ max_captures[1] >= 1
             => Len(captures') = max_captures'[1] )
        /\ ( state' = "capture" =>
               /\ Len(captures') < max_captures'[1] \/ Len(captures') = 0
               /\ \A i \in 1 .. Len(captures') :
                     captures'[i] = CaptureFile(CycleDir(cycles'), i - 1) ) ]_vars

\* C17 witness: processing entered with the four pictures of a cycle.
C17_Witness ==
    /\ state = "processing"
    /\ max_captures = Some(FourCaptures)
    /\ Len(captures) = FourCaptures

\* C19: between two ticks the lights agree with the active state: the picture
\* light is on in choose and capture and off in processing, print and finish;
\* the print light is off in choose, capture and processing and on in print;
\* after the cleanup both lights are off.
C19_LightsAgreeWithState ==
    /\ pc = "loop" =>
          /\ (state \in { "choose", "capture" } => led_picture = "on")
          /\ (state \in { "processing", "print", "finish" } => led_picture = "off")
          /\ (state \in { "choose", "capture", "processing" } => led_print = "off")
          /\ (state = "print" => led_print = "on")
    /\ pc = "exit" => led_picture = "off" /\ led_print = "off"

\* C19 witness: print is active in a running loop after a cycle of four
\* pictures, the print light on and the picture light off.
C19_Witness ==
    /\ pc = "loop"
    /\ state = "print"
    /\ Len(previous_picture[1]) = FourCaptures
    /\ led_print = "on"
    /\ led_picture = "off"

\* C20: while the loop runs the live preview is on between two ticks exactly
\* when capture is active; a tick starts or stops the preview at most once, a
\* start finds it stopped and a stop finds it running; a picture is taken only
\* with the preview running, and the composition is made in a tick that has
\* stopped it.
C20_PreviewIffCapture ==
    /\ [](pc = "loop" => (previewing <=> state = "capture"))
    /\ [][ /\ CountIn(calls', "camera.preview")
                + CountIn(calls', "camera.stop_preview") <= 1
           /\ (CalledIn(calls', "camera.preview") =>
                 ~previewing /\ (raised' = None => previewing'))
           /\ (CalledIn(calls', "camera.stop_preview") =>
                 previewing /\ ~previewing')
           /\ (previewing' # previewing =>
                 \/ CalledIn(calls', "camera.preview")
                 \/ CalledIn(calls', "camera.stop_preview"))
           /\ (CalledIn(calls', "camera.capture") => previewing)
           /\ (previous_picture' # None /\ previous_picture' # previous_picture =>
                 /\ CalledIn(calls', "camera.stop_preview")
                 /\ ~previewing') ]_vars

\* C20 witness: processing entered in the second cycle, the preview stopped
\* for the second time and the composition made.
C20_Witness ==
    /\ pc = "loop"
    /\ state = "processing"
    /\ cycles = 2
    /\ ~previewing
    /\ CalledIn(calls, "camera.stop_preview")
    /\ previous_picture # None

\* C18: with no quit event and no hardware failure, the loop iterating and the
\* clock advancing, every cycle that has entered choose gets back to wait.
C18_StartedCycleCompletes == (state = "choose") ~> (state = "wait")

\* C18 witness: back in wait after a cycle of four pictures that went through
\* print and was left on the timer, no print request having been served.
C18_Witness ==
    /\ state = "wait"
    /\ cycles >= 1
    /\ installed
    /\ ~printed
    /\ Len(previous_picture[1]) = FourCaptures

=============================================================================
